---- MODULE Spec2Model ----
(***************************************************************************)
(* Model of core/scrapper.py: the lazily resolved fields of Anime and      *)
(* Episode, the single-slot page cache, Episode.download and               *)
(* Anime.download.                                                         *)
(*                                                                         *)
(* Python values: None is the empty tuple, any other value v is <<v>>.     *)
(* A call ends with a result [raised, val]: raised = "" and val the        *)
(* returned value, or raised = the name of the exception and val = None.   *)
(* Text is a sequence of tokens; a URL is a sequence of character codes,   *)
(* compared as Python compares strings.                                    *)
(* The transport is assumed to answer every request (with a success or a   *)
(* failure status); a request that raises inside the HTTP library is not   *)
(* modelled.                                                               *)
(***************************************************************************)
EXTENDS FiniteSets, Integers, Sequences, TLC

\* ------------------------------------------------------------------ bounds
MaxSteps == 2

MaxLines == 3

MaxBatchLines == 1

\* ------------------------------------------------------------ Python values
None == <<>>

Some(v) == <<v>>

Ret(v) == [raised |-> "", val |-> v]

Raise(e) == [raised |-> e, val |-> None]

RECURSIVE SplitFrom(_, _, _, _)
SplitFrom(s, sep, i, cur) ==
    IF i > Len(s) THEN <<cur>>
    ELSE IF s[i] = sep THEN <<cur>> \o SplitFrom(s, sep, i + 1, <<>>)
    ELSE SplitFrom(s, sep, i + 1, Append(cur, s[i]))

\* str.split(sep) on a text of tokens
split(s, sep) == SplitFrom(s, sep, 1, <<>>)

\* Python's order on strings, for URLs as sequences of character codes
RECURSIVE LexLess(_, _)
LexLess(a, b) ==
    IF a = <<>> THEN b # <<>>
    ELSE IF b = <<>> THEN FALSE
    ELSE IF a[1] # b[1] THEN a[1] < b[1]
    ELSE LexLess(Tail(a), Tail(b))

\* the list is left in descending order
RECURSIVE Mutant_sort_descending(_)
Mutant_sort_descending(S) ==
    IF S = {} THEN <<>>
    ELSE LET m == CHOOSE x \in S : \A y \in S \ {x} : LexLess(y, x)
         IN <<m>> \o Mutant_sort_descending(S \ {m})

\* list.sort() of a collection of distinct URLs
RECURSIVE sort(_)
sort(S) ==
    IF S = {} THEN <<>>
    ELSE LET m == CHOOSE x \in S : \A y \in S \ {x} : LexLess(x, y)
         IN <<m>> \o sort(S \ {m})

\* ------------------------------------------------------------- the site
Root == 9

Ep1 == <<Root, 1>>

Ep10 == <<Root, 1, 0>>

Ep2 == <<Root, 2>>

AnimeUrl == <<Root, 5>>

\* utils.complete_url: a relative address gets the site root in front
complete_url(u) == IF u # <<>> /\ u[1] = Root THEN u ELSE <<Root>> \o u

\* utils.parse_name: the name part of an address
parse_name(u) == IF u # <<>> /\ u[1] = Root THEN Tail(u) ELSE u

\* utils.get_extension: the extension of an image address
get_extension(src) == IF src = <<>> THEN "" ELSE src[Len(src)]

Thumb1 == <<"t1", ".", "png">>

Thumb2 == <<"t2", ".", "jpg">>

Poster1 == <<"p1", ".", "jpg">>

\* Rendered show pages the Page Fetcher can hand back.  synopsis, loading,
\* head, tag: None when the element is missing.  items: the text of each
\* metadata item, split into tokens.  objects: the absolute_links of each
\* element of the episode container.  holders: the thumbnails.
PageA ==
    [ok |-> TRUE,
     synopsis |-> Some("syn1"),
     items |-> << <<"Type", "TV">>, <<"Year", "2020", "Fall">> >>,
     loading |-> Some(Thumb1),
     head |-> Some(<<"bg:", "url(">> \o Poster1 \o <<")", ";">>),
     tag |-> Some(<< [text |-> "action", href |-> Some(<<3>>)] >>),
     objects |-> << {Ep2, Ep10}, {Ep2}, {}, {Ep10}, {Ep1}, {Ep2} >>,
     holders |-> << [href |-> Some(<<1>>), src |-> Some(Thumb2)],
                    [href |-> Some(Ep2), src |-> Some(Thumb1)] >>]

PageB ==
    [ok |-> TRUE,
     synopsis |-> Some("syn2"),
     items |-> << <<"Type", "OVA">> >>,
     loading |-> Some(Thumb2),
     head |-> Some(<<"bg:", "url(">> \o Poster1 \o <<")", ";">>),
     tag |-> Some(<< [text |-> "drama", href |-> None] >>),
     objects |-> << {Ep1}, {} >>,
     holders |-> << [href |-> Some(Ep2), src |-> Some(Thumb1)],
                    [href |-> Some(Ep1), src |-> None] >>]

PageBad ==
    [ok |-> FALSE,
     synopsis |-> None,
     items |-> << <<"Type", "TV">>, <<>>, <<"Year", "2020">> >>,
     loading |-> None,
     head |-> Some(<<"color:red">>),
     tag |-> None,
     objects |-> <<>>,
     holders |-> <<>>]

ShowPages == {PageA, PageB, PageBad}

\* Rendered episode pages: iframe is the src of the player iframe
EPageA == [ok |-> TRUE, iframe |-> Some(<<"https:", "//", "host1", "/", "e1">>)]

EPageB == [ok |-> TRUE, iframe |-> Some(<<"https:", "//", "host2", "/", "e7">>)]

EPageRel == [ok |-> TRUE, iframe |-> Some(<<"/", "embed", "/", "e1">>)]

EPageBad == [ok |-> FALSE, iframe |-> None]

EpisodePages == {EPageA, EPageB, EPageRel, EPageBad}

\* Bodies the image server can answer with
ImageBytes == {<<1>>, <<2>>}

\* ------------------------------------------------------------- entities
\* Image(raw, url = src) after __post_init__
Image(raw, src) == [raw |-> raw, ext |-> get_extension(src), url |-> src]

\* Episode.__init__
Episode(url) ==
    [url |-> url, raw_name |-> parse_name(url),
     picture |-> None, poster |-> None, tags |-> None, data |-> None,
     provider |-> None, cache |-> None]

\* Anime.__init__
Anime(url) ==
    [url |-> url, raw_name |-> parse_name(url),
     synopsis |-> None, data |-> None, picture |-> None, poster |-> None,
     tags |-> None, episodes |-> None, cache |-> None]

AnimeAuto == {"synopsis", "data", "picture", "poster", "tags", "episodes"}

EpisodeAuto == {"picture", "poster", "tags", "data", "provider"}

\* the get_<name> methods class Episode defines
EpisodeResolvers == {"picture", "provider"}

\* ------------------------------------------------------------ dictionaries
\* A dict is the sequence of its [k, v] entries in insertion order.
RECURSIVE DictPut(_, _, _)
DictPut(d, k, v) ==
    IF d = <<>> THEN << [k |-> k, v |-> v] >>
    ELSE IF d[1].k = k THEN << [k |-> k, v |-> v] >> \o Tail(d)
    ELSE << d[1] >> \o DictPut(Tail(d), k, v)

\* ' '.join(v)
RECURSIVE join(_)
join(v) ==
    IF Len(v) <= 1 THEN v ELSE << v[1], " " >> \o join(Tail(v))

\* ------------------------------------------------------------- page cache
\* get_page storing whatever it returns, whether `cache` is set or not
Mutant_get_page_always_stores(self, cache, force, served) ==
    LET hit == self.cache # None /\ ~force
        page == IF hit THEN self.cache[1] ELSE served
    IN [page |-> page, cache |-> Some(page), fetched |-> IF hit THEN 0 ELSE 1]

\* get_page taking a page of a failed load for no page: it is fetched again
Mutant_get_page_refetches_failed(self, cache, force, served) ==
    LET hit == self.cache # None /\ self.cache[1].ok /\ ~force
        page == IF hit THEN self.cache[1] ELSE served
    IN [page |-> page,
        cache |-> IF cache THEN Some(page) ELSE self.cache,
        fetched |-> IF hit THEN 0 ELSE 1]

\* Anime.get_page.  served: the page Comm.get_dyna returns if it is asked.
\* A rendered page object is always truthy, so `self.cache` tests for None.
Anime_get_page(self, cache, force, served) ==
    LET hit == self.cache # None /\ ~force
        page == IF hit THEN self.cache[1] ELSE served
    IN [page |-> page,
        cache |-> IF cache THEN Some(page) ELSE self.cache,
        fetched |-> IF hit THEN 0 ELSE 1]

\* Episode.get_page
Episode_get_page(self, cache, force, served) ==
    LET hit == self.cache # None /\ ~force
        page == IF hit THEN self.cache[1] ELSE served
    IN [page |-> page,
        cache |-> IF cache THEN Some(page) ELSE self.cache,
        fetched |-> IF hit THEN 0 ELSE 1]

\* ------------------------------------------------------- Anime resolvers
\* Each returns the object after the call, the call's result, the number of
\* page fetches and the number of other requests it made.
Anime_get_synopsis(self, cache, force, served) ==
    LET g == Anime_get_page(self, cache, force, served)
        s1 == [self EXCEPT !.cache = g.cache]
    IN IF g.page.synopsis = None
       THEN \* .text of None is caught and logged; `syn` is then unbound
            [self |-> s1, res |-> Raise("UnboundLocalError"),
             fetched |-> g.fetched, io |-> 0]
       ELSE [self |-> [s1 EXCEPT !.synopsis = g.page.synopsis],
             res |-> Ret(g.page.synopsis), fetched |-> g.fetched, io |-> 0]

\* the loop of get_data: stops at the first item whose text does not unpack
RECURSIVE ParseItems(_, _)
ParseItems(items, data) ==
    IF items = <<>> \/ items[1] = <<>> THEN data
    ELSE ParseItems(Tail(items),
                    DictPut(data, items[1][1], join(Tail(items[1]))))

Anime_get_data(self, cache, force, served) ==
    LET g == Anime_get_page(self, cache, force, served)
        data == ParseItems(g.page.items, <<>>)
    IN [self |-> [self EXCEPT !.cache = g.cache, !.data = Some(data)],
        res |-> Ret(Some(data)), fetched |-> g.fetched, io |-> 0]

\* img: the body the image server answers with
Anime_get_picture(self, cache, force, served, img) ==
    LET g == Anime_get_page(self, cache, force, served)
        s1 == [self EXCEPT !.cache = g.cache]
    IN IF g.page.loading = None
       THEN [self |-> s1, res |-> Raise("UnboundLocalError"),
             fetched |-> g.fetched, io |-> 0]
       ELSE \* the Image is returned and never assigned to self.picture
            [self |-> s1, res |-> Ret(Some(Image(img, g.page.loading[1]))),
             fetched |-> g.fetched, io |-> 1]

\* style.split('url(')[1].split(')')[0]; None when an index is out of range
PosterSrc(style) ==
    LET a == split(style, "url(")
    IN IF Len(a) < 2 THEN None ELSE Some(split(a[2], ")")[1])

Anime_get_poster(self, cache, force, served, img) ==
    LET g == Anime_get_page(self, cache, force, served)
        s1 == [self EXCEPT !.cache = g.cache]
        src == IF g.page.head = None THEN None ELSE PosterSrc(g.page.head[1])
    IN IF src = None
       THEN [self |-> s1, res |-> Raise("UnboundLocalError"),
             fetched |-> g.fetched, io |-> 0]
       ELSE \* the Image is returned and never assigned to self.poster
            [self |-> s1, res |-> Ret(Some(Image(img, src[1]))),
             fetched |-> g.fetched, io |-> 1]

RECURSIVE TagDict(_, _)
TagDict(items, d) ==
    IF items = <<>> THEN d
    ELSE TagDict(Tail(items),
                 DictPut(d, items[1].text, complete_url(items[1].href[1])))

Anime_get_tags(self, cache, force, served) ==
    LET g == Anime_get_page(self, cache, force, served)
        s1 == [self EXCEPT !.cache = g.cache]
    IN IF g.page.tag = None
       THEN [self |-> s1, res |-> Raise("UnboundLocalError"),
             fetched |-> g.fetched, io |-> 0]
       ELSE LET items == g.page.tag[1]
                \* a missing href leaves `tags` bound to the element list
                tags == IF \E i \in DOMAIN items : items[i].href = None
                        THEN items ELSE TagDict(items, <<>>)
            IN [self |-> [s1 EXCEPT !.tags = Some(tags)],
                res |-> Ret(Some(tags)), fetched |-> g.fetched, io |-> 0]

\* utils.get_episode_index: the number an episode address ends with
RECURSIVE Digits(_, _)
Digits(d, acc) == IF d = <<>> THEN acc ELSE Digits(Tail(d), 10 * acc + d[1])

get_episode_index(u) == Digits(parse_name(u), 0)

\* The filters a caller passes to get_episodes: none, or a function that
\* accepts the indices in `accept` and raises on those in `raises`.
NoFilter == [given |-> FALSE, accept |-> {}, raises |-> {}]

Filters ==
    {NoFilter,
     [given |-> TRUE, accept |-> {1, 10}, raises |-> {}],
     [given |-> TRUE, accept |-> {1, 2}, raises |-> {10}]}

\* ep.absolute_links.pop() takes an arbitrary link of each element that has
\* one: the sets of links the comprehension can collect
RECURSIVE PopSets(_)
PopSets(objects) ==
    IF objects = <<>> THEN {{}}
    ELSE IF objects[1] = {} THEN PopSets(Tail(objects))
    ELSE {{x} \cup rest : x \in objects[1], rest \in PopSets(Tail(objects))}

\* the filtering loop: an exception of the filter ends it, `filtered` keeps
\* what was appended before
RECURSIVE FilterLoop(_, _, _)
FilterLoop(episodes, filter, filtered) ==
    IF episodes = <<>> THEN filtered
    ELSE LET idx == get_episode_index(episodes[1])
         IN IF idx \in filter.raises THEN filtered
            ELSE FilterLoop(Tail(episodes), filter,
                            IF idx \in filter.accept
                            THEN Append(filtered, Episode(episodes[1]))
                            ELSE filtered)

\* get_episodes keeping every episode of the page in `episodes`, whatever
\* the filter let through
Mutant_get_episodes_keeps_all(self, filter, cache, force, served, links) ==
    LET g == Anime_get_page(self, cache, force, served)
        episodes == sort(links)
        all == [i \in DOMAIN episodes |-> Episode(episodes[i])]
        filtered == IF filter.given
                    THEN FilterLoop(episodes, filter, <<>>)
                    ELSE all
    IN [self |-> [self EXCEPT !.cache = g.cache, !.episodes = Some(all)],
        res |-> Ret(Some(filtered)), fetched |-> g.fetched, io |-> 0]

\* links: the set the comprehension collected, one of PopSets(objects)
Anime_get_episodes(self, filter, cache, force, served, links) ==
    LET g == Anime_get_page(self, cache, force, served)
        episodes == sort(links)
        filtered == IF filter.given
                    THEN FilterLoop(episodes, filter, <<>>)
                    ELSE [i \in DOMAIN episodes |-> Episode(episodes[i])]
    IN [self |-> [self EXCEPT !.cache = g.cache, !.episodes = Some(filtered)],
        res |-> Ret(Some(filtered)), fetched |-> g.fetched, io |-> 0]

\* get_<name>(cache, force) of Anime, by name
Anime_resolve(self, name, cache, force, served, img, links) ==
    CASE name = "synopsis" -> Anime_get_synopsis(self, cache, force, served)
      [] name = "data" -> Anime_get_data(self, cache, force, served)
      [] name = "picture" -> Anime_get_picture(self, cache, force, served, img)
      [] name = "poster" -> Anime_get_poster(self, cache, force, served, img)
      [] name = "tags" -> Anime_get_tags(self, cache, force, served)
      [] name = "episodes" ->
            Anime_get_episodes(self, NoFilter, cache, force, served, links)

\* Anime.__getattribute__ on a name of `auto`.  ran: a resolver was run.
Anime_getattribute(self, name, served, img, links) ==
    IF self[name] = None
    THEN [ran |-> TRUE] @@ Anime_resolve(self, name, TRUE, FALSE, served, img, links)
    ELSE [ran |-> FALSE, self |-> self, res |-> Ret(self[name]),
          fetched |-> 0, io |-> 0]

\* ------------------------------------------------------ Anime.get_episode
\* Characters of an address that are not digits: '/info/' and '/episode/'
\* (each taken as one character), '_', '-' and a letter.
Slash_info == 11

Slash_episode == 12

Underscore == 13

Dash == 14

Letter == 15

\* Addresses a show can be built with: without '/info/' and '_', without '_',
\* with one '_', with two '_', with '/info/' twice and digits after the '_'
ShowUrls ==
    { <<Root, 5>>,
      <<Root, Slash_info, 5, Dash, Letter>>,
      <<Root, Slash_info, 5, Dash, Letter, Underscore, Letter>>,
      <<Root, Slash_info, 5, Underscore, Letter, Underscore, Letter>>,
      <<Root, Slash_info, Slash_info, 5, Dash, 4, Underscore, 3>> }

\* the indexes asked for
Indices == {0, 7, 8, 12}

\* str(index) for an index that is not negative: its decimal digits
RECURSIVE str(_)
str(n) == IF n < 10 THEN <<n>> ELSE str(n \div 10) \o <<n % 10>>

\* s.zfill(width)
RECURSIVE zfill(_, _)
zfill(s, width) == IF Len(s) >= width THEN s ELSE zfill(<<0>> \o s, width)

\* s[::-1]
reversed(s) == [k \in DOMAIN s |-> s[Len(s) + 1 - k]]

\* s.replace(old, new): every occurrence of the character `old`
RECURSIVE replace(_, _, _)
replace(s, old, new) ==
    IF s = <<>> THEN <<>>
    ELSE (IF s[1] = old THEN new ELSE <<s[1]>>) \o replace(Tail(s), old, new)

\* s.replace(old, new, 1): the first occurrence only
RECURSIVE replace_first(_, _, _)
replace_first(s, old, new) ==
    IF s = <<>> THEN <<>>
    ELSE IF s[1] = old THEN new \o Tail(s)
    ELSE <<s[1]>> \o replace_first(Tail(s), old, new)

\* the index is put before the first '_' instead of the last
Mutant_get_episode_first_underscore(self, index) ==
    LET i == <<Dash>> \o zfill(str(index), 2) \o <<Underscore>>
        ep_url == replace(self.url, Slash_info, <<Slash_episode>>)
    IN Episode(replace_first(ep_url, Underscore, i))

\* Anime.get_episode(index)
Anime_get_episode(self, index) ==
    LET i == reversed(<<Dash>> \o zfill(str(index), 2) \o <<Underscore>>)
        ep_url == replace(self.url, Slash_info, <<Slash_episode>>)
    IN Episode(reversed(replace_first(reversed(ep_url), Underscore, i)))

\* EpisodeIterable.__getitem__(index): `if 1: return self.anime.get_episode(index)`
EpisodeIterable_getitem(self, index) == Anime_get_episode(self, index)

\* ----------------------------------------------------- Episode resolvers
\* the loop of Episode.get_picture over the thumbnails of the show's page
RECURSIVE PictureLoop(_, _, _)
PictureLoop(holders, url, img) ==
    IF holders = <<>> THEN [val |-> None, io |-> 0]
    ELSE IF holders[1].href = None THEN [val |-> None, io |-> 0]
    ELSE IF complete_url(holders[1].href[1]) # url
         THEN PictureLoop(Tail(holders), url, img)
    ELSE IF holders[1].src = None THEN [val |-> None, io |-> 0]
    ELSE [val |-> Some(Image(img, holders[1].src[1])), io |-> 1]

\* get_picture handing the `cache` flag to nobody: the page it read is
\* not kept by the Anime
Mutant_picture_keeps_no_page(self, owner, cache, force, served, img) ==
    LET g == Anime_get_page(owner, FALSE, force, served)
        r == PictureLoop(g.page.holders, self.url, img)
    IN [self |-> self, anime |-> owner,
        res |-> Ret(r.val), fetched |-> 0, fetchedAnime |-> g.fetched,
        io |-> r.io]

\* Episode.get_picture reads the page of the owning Anime; it returns the
\* Anime after the call as `anime` and leaves the Episode as it is.
Episode_get_picture(self, owner, cache, force, served, img) ==
    LET g == Anime_get_page(owner, cache, force, served)
        r == PictureLoop(g.page.holders, self.url, img)
    IN [self |-> self, anime |-> [owner EXCEPT !.cache = g.cache],
        res |-> Ret(r.val), fetched |-> 0, fetchedAnime |-> g.fetched,
        io |-> r.io]

Episode_get_provider(self, owner, cache, force, served) ==
    LET g == Episode_get_page(self, cache, force, served)
        s1 == [self EXCEPT !.cache = g.cache]
        bound == /\ g.page.iframe # None
                 /\ Len(split(g.page.iframe[1], "//")) >= 2
    IN IF ~bound
       THEN \* `provider_name` (and `provider`) unbound at the log line
            [self |-> s1, anime |-> owner, res |-> Raise("UnboundLocalError"),
             fetched |-> g.fetched, fetchedAnime |-> 0, io |-> 0]
       ELSE [self |-> [s1 EXCEPT !.provider = g.page.iframe], anime |-> owner,
             res |-> Ret(g.page.iframe),
             fetched |-> g.fetched, fetchedAnime |-> 0, io |-> 0]

\* get_<name>(cache, force) of Episode, by name; the class defines no
\* get_poster, get_tags or get_data
Episode_resolve(self, owner, name, cache, force, servedA, servedE, img) ==
    CASE name = "picture" ->
            Episode_get_picture(self, owner, cache, force, servedA, img)
      [] name = "provider" ->
            Episode_get_provider(self, owner, cache, force, servedE)
      [] OTHER ->
            [self |-> self, anime |-> owner, res |-> Raise("AttributeError"),
             fetched |-> 0, fetchedAnime |-> 0, io |-> 0]

\* Episode.__getattribute__ on a name of `auto`
Episode_getattribute(self, owner, name, servedA, servedE, img) ==
    IF self[name] = None
    THEN [ran |-> name \in EpisodeResolvers]
         @@ Episode_resolve(self, owner, name, TRUE, FALSE, servedA, servedE, img)
    ELSE [ran |-> FALSE, self |-> self, anime |-> owner, res |-> Ret(self[name]),
          fetched |-> 0, fetchedAnime |-> 0, io |-> 0]

\* ---------------------------------------------------- Episode.download
\* consts.Quality.BEST, the default quality
Quality_BEST == [sym |-> "best", level |-> 0]

\* a numeric quality specification
Level(q) == [sym |-> "", level |-> q]

\* the specifications a batch is called with
BatchQualities == {Quality_BEST, Level(4)}

\* the specifications a download is called with: levels below, at, between
\* and above the levels of the manifests
Qualities == BatchQualities \cup {Level(0), Level(2), Level(7)}

\* What grabber.grab_request hands to utils.parse_qualities: the quality
\* levels of the provider's manifest with their playlist addresses.
Manifest3 ==
    << [q |-> 3, url |-> "u2"], [q |-> 1, url |-> "u1"], [q |-> 5, url |-> "u3"] >>

Manifest2 ==
    << [q |-> 6, url |-> "w2"], [q |-> 2, url |-> "w1"] >>

Manifest1 ==
    << [q |-> 2, url |-> "v1"] >>

\* the manifests the episodes of a batch get
BatchManifests == {<<>>, Manifest3}

Manifests == BatchManifests \cup {Manifest1, Manifest2}

\* the entries of a manifest by ascending level
RECURSIVE SortByLevel(_)
SortByLevel(m) ==
    IF m = <<>> THEN <<>>
    ELSE LET i == CHOOSE a \in DOMAIN m : \A b \in DOMAIN m : m[a].q <= m[b].q
         IN << m[i] >> \o SortByLevel([k \in 1..(Len(m) - 1) |->
                                          IF k < i THEN m[k] ELSE m[k + 1]])

Dist(a, b) == IF a < b THEN b - a ELSE a - b

\* utils.parse_qualities: the playlist address for a quality specification
parse_qualities(manifest, quality) ==
    IF manifest = <<>> THEN Raise("ManifestEmpty")
    ELSE LET m == SortByLevel(manifest)
             n == Len(m)
             near == CHOOSE a \in 1..n :
                        \A b \in 1..n :
                            \/ Dist(m[a].q, quality.level) < Dist(m[b].q, quality.level)
                            \/ /\ Dist(m[a].q, quality.level) = Dist(m[b].q, quality.level)
                               /\ a <= b
         IN CASE quality.sym = "best" -> Ret(Some(m[n].url))
              [] quality.sym = "worst" -> Ret(Some(m[1].url))
              [] quality.sym = "middle" -> Ret(Some(m[((n - 1) \div 2) + 1].url))
              [] OTHER -> Ret(Some(m[near].url))

\* Lines a playlist can hold: two segment references, an empty line and a
\* reference that is not HTTPS
SegA == <<"https://", "a">>

SegB == <<"https://", "b">>

Lines == {SegA, SegB, <<>>, <<"http://", "x">>}

RECURSIVE JoinLines(_)
JoinLines(ls) ==
    IF ls = <<>> THEN <<>>
    ELSE IF Len(ls) = 1 THEN ls[1]
    ELSE ls[1] \o <<"\n">> \o JoinLines(Tail(ls))

\* the playlist texts of at most n lines
PlaylistTexts(n) ==
    {JoinLines(ls) : ls \in UNION {[1..k -> Lines] : k \in 1..n}}

\* Answers to the playlist request: the text with a success or a failure status
PlaylistOk(text) == [ok |-> TRUE, status_code |-> 200, text |-> text]

PlaylistFailed(text) == [ok |-> FALSE, status_code |-> 404, text |-> text]

PlaylistResponses(texts) ==
    {PlaylistOk(t) : t \in texts} \cup {PlaylistFailed(t) : t \in texts}

\* Answers to a segment request
SegOk1 == [ok |-> TRUE, status_code |-> 200, content |-> <<1>>, text |-> "A"]

SegOk2 == [ok |-> TRUE, status_code |-> 200, content |-> <<2, 3>>, text |-> "BC"]

Seg404 == [ok |-> FALSE, status_code |-> 404, content |-> <<4>>, text |-> "gone"]

Seg500 == [ok |-> FALSE, status_code |-> 500, content |-> <<>>, text |-> "down"]

SegResponses == {SegOk1, SegOk2, Seg404, Seg500}

NoResponse == [ok |-> TRUE, status_code |-> 0, content |-> <<>>, text |-> ""]

\* every line that is not empty is taken
Mutant_startswith_anything(line) == line # <<>>

\* s.startswith('https://')
startswith_https(line) == line # <<>> /\ line[1] = "https://"

\* enumerate(segments): the pairs (i, link), i from 0
enumerate(segments) == [k \in DOMAIN segments |-> <<k - 1, segments[k]>>]

\* utils.bar: shows progress and yields the items it is given, in order
bar(title, items) == items

\* path += '.mp4'
add_mp4(path) == path \o <<".mp4">>

\* open(path, 'wb') and write: the file is created or replaced
WriteFile(files, path, content) ==
    {f \in files : f.path # path} \cup {[path |-> path, content |-> content]}

\* result of Episode.download
DlRet(path) == [raised |-> "", val |-> Some(path), args |-> <<>>]

DlRaise(e, args) == [raised |-> e, val |-> None, args |-> args]

Idle ==
    [pc |-> "idle", path |-> <<>>, ext |-> FALSE, cb |-> FALSE, items |-> <<>>,
     k |-> 1, lenght |-> 0, content |-> <<>>, segment |-> NoResponse,
     quality |-> Quality_BEST, raw |-> None, url |-> None,
     res |-> DlRet(<<>>)]

\* Episode.download from the result u of utils.parse_qualities to the head of
\* the segment loop (lines 263-278).  cb: a looping_callback was given.
\* Returns the Episode after get_provider, the frame of the call and the
\* requests made; the event of the manifest request carries the manifest,
\* the event of the playlist request the address and the answer (playlist:
\* its status and text).
Episode_download_resolved(self, owner, path, quality, ext, cb, served, manifest, playlist, u) ==
    LET p == Episode_get_provider(self, owner, TRUE, FALSE, served)
        page == IF p.fetched > 0 THEN << [e |-> "page", i |-> 0, n |-> 0] >> ELSE <<>>
        grab == << [e |-> "grab", i |-> 0, n |-> 0, m |-> manifest] >>
        res == playlist.text
        segments == SelectSeq(split(res, "\n"), startswith_https)
        items == bar("Fetching", enumerate(segments))
        called == [Idle EXCEPT !.path = path, !.ext = ext, !.cb = cb,
                               !.quality = quality]
    IN IF p.res.raised # ""
       THEN [self |-> p.self, fetched |-> p.fetched, events |-> page,
             frame |-> [called EXCEPT !.pc = "raised",
                                      !.res = DlRaise(p.res.raised, <<>>)]]
       ELSE IF u.raised # ""
       THEN [self |-> p.self, fetched |-> p.fetched,
             events |-> page \o grab,
             frame |-> [called EXCEPT !.pc = "raised", !.raw = Some(manifest),
                                      !.res = DlRaise(u.raised, <<>>)]]
       ELSE [self |-> p.self, fetched |-> p.fetched,
             events |-> page \o grab
                        \o << [e |-> "playlist", i |-> 0, n |-> 0, url |-> u.val[1],
                                ok |-> playlist.ok, text |-> playlist.text] >>,
             frame |-> [called EXCEPT !.pc = IF items = <<>> THEN "write" ELSE "fetch",
                                      !.raw = Some(manifest), !.url = u.val,
                                      !.items = items, !.lenght = Len(segments)]]

\* an empty manifest falls back to a default address
Mutant_begin_defaults_on_empty(self, owner, path, quality, ext, cb, served, manifest, playlist) ==
    Episode_download_resolved(self, owner, path, quality, ext, cb, served, manifest,
                              playlist,
        IF manifest = <<>> THEN Ret(Some("default"))
        ELSE parse_qualities(manifest, quality))

\* a playlist answered with a failure status ends the download
Mutant_begin_checks_playlist(self, owner, path, quality, ext, cb, served, manifest, playlist) ==
    LET b == Episode_download_resolved(self, owner, path, quality, ext, cb, served,
                                       manifest, playlist,
                                       parse_qualities(manifest, quality))
    IN IF b.frame.pc \in {"fetch", "write"} /\ ~playlist.ok
       THEN [b EXCEPT !.frame.pc = "raised",
                      !.frame.res = DlRaise("FetchingErorr",
                                            <<playlist.text, playlist.status_code>>)]
       ELSE b

\* the quality asked for is not handed on: the best one is taken
Mutant_begin_ignores_quality(self, owner, path, quality, ext, cb, served, manifest, playlist) ==
    Episode_download_resolved(self, owner, path, quality, ext, cb, served, manifest,
                              playlist,
        parse_qualities(manifest, Quality_BEST))

\* Episode.download down to the head of the segment loop (lines 253-278)
Episode_download_begin(self, owner, path, quality, ext, cb, served, manifest, playlist) ==
    Episode_download_resolved(self, owner, path, quality, ext, cb, served, manifest,
                              playlist,
        parse_qualities(manifest, quality))

\* with a callback, the status is not looked at before the callback is made
Mutant_fetch_reports_first(f, r) ==
    IF ~r.ok /\ ~f.cb
    THEN [f EXCEPT !.pc = "raised", !.segment = r,
                   !.res = DlRaise("FetchingErorr", <<r.text, r.status_code>>)]
    ELSE [f EXCEPT !.pc = IF f.cb THEN "callback" ELSE "append", !.segment = r]

\* the status of the answer is not looked at
Mutant_fetch_ignores_status(f, r) ==
    [f EXCEPT !.pc = IF f.cb THEN "callback" ELSE "append", !.segment = r]

\* segment = self.comm.session.get(link) and the check of segment.ok
\* (lines 284-288); r: the answer
Episode_download_fetch(f, r) ==
    IF ~r.ok
    THEN [f EXCEPT !.pc = "raised", !.segment = r,
                   !.res = DlRaise("FetchingErorr", <<r.text, r.status_code>>)]
    ELSE [f EXCEPT !.pc = IF f.cb THEN "callback" ELSE "append", !.segment = r]

\* the new payload is put in front of the buffer
Mutant_append_prepends(f) ==
    [f EXCEPT !.content = f.segment.content \o f.content,
              !.k = f.k + 1,
              !.pc = IF f.k < Len(f.items) THEN "fetch" ELSE "write"]

\* content += segment.content, and the loop goes on or ends (lines 292, 280)
Episode_download_append(f) ==
    [f EXCEPT !.content = f.content \o f.segment.content,
              !.k = f.k + 1,
              !.pc = IF f.k < Len(f.items) THEN "fetch" ELSE "write"]

\* the extension is appended whatever `ext` says
Mutant_path_always_mp4(f) == add_mp4(f.path)

\* lines 297-301: the path the file is written at and returned
Episode_download_path(f) == IF f.ext THEN add_mp4(f.path) ELSE f.path

\* ------------------------------------------------------- Anime.download
\* the default of the `pause` parameter
DefaultPause == 5

\* if not path[-1] in '/\\': path += '/'
with_separator(path) ==
    IF path[Len(path)] \in {"/", "\\"} THEN path ELSE path \o <<"/">>

\* ep_path = path + episode.raw_name + '.mp4'
episode_path(path, ep) == path \o ep.raw_name \o <<".mp4">>

\* the directories a batch is called with: without a separator at the end,
\* with '/' and with '\'
Directories == {<<"dir">>, <<"dir", "/">>, <<"dir", "\\">>}

BatchIdle ==
    [pc |-> "idle", arg |-> <<>>, path |-> <<>>, quality |-> Quality_BEST,
     pause |-> DefaultPause, k |-> 1, pathes |-> <<>>, written |-> <<>>, res |-> DlRet(<<>>)]

\* ------------------------------------------------------------------ state
VARIABLES
    anime,      \* the Anime object
    episode,    \* an Episode of it, built by Episode(Ep2, anime)
    last,       \* what the last call was and what it did
    seen,       \* per derived field, the first value an attribute read returned
    nfetch,     \* page fetches so far, per entity
    clean,      \* no call so far passed flags other than the defaults
    steps,      \* calls made so far
    dl,         \* the frame of the running Episode.download: its locals
    fs,         \* the files on disk
    log,        \* requests and callbacks of the running download, in order
    got,        \* the answers to its segment requests, in order
    made,       \* per index, the address the first get_episode for it built
    batch,      \* the frame of the running Anime.download: its locals, and
                \* `written`: the files its finished downloads wrote
    blog        \* downloads and pauses of the running Anime.download, in order

vars ==
    <<anime, episode, last, seen, nfetch, clean, steps, dl, fs, log, got, made,
      batch, blog>>

batchvars == <<batch, blog>>

lazyvars == <<last, seen, clean, steps, made>>

dlvars == <<dl, fs, log, got>>

Keys == ({"anime"} \X AnimeAuto) \cup ({"episode"} \X EpisodeAuto)

NoCall ==
    [ent |-> "", op |-> "init", name |-> "", cache |-> TRUE, force |-> FALSE,
     res |-> Ret(None), ran |-> FALSE, fetchedAnime |-> 0, fetchedEpisode |-> 0,
     io |-> 0, had |-> FALSE, was |-> FALSE, precache |-> None, served |-> None]

Init ==
    /\ anime = Anime(AnimeUrl)
    /\ episode = Episode(Ep2)
    /\ last = NoCall
    /\ seen = [k \in Keys |-> None]
    /\ nfetch = [anime |-> 0, episode |-> 0]
    /\ clean = TRUE
    /\ steps = 0
    /\ dl = Idle
    /\ fs = {}
    /\ log = <<>>
    /\ got = <<>>
    /\ made = [i \in Indices |-> None]
    /\ batch = BatchIdle
    /\ blog = <<>>

\* ------------------------------------------------------------ environment
\* What the rest of the world can answer during one call.  A call that finds
\* its page cached and is not forced asks nothing: one placeholder stands for
\* the answers nobody reads.
ShowAnswers(self, force) ==
    IF self.cache # None /\ ~force THEN {PageA} ELSE ShowPages

EpisodeAnswers(self, force) ==
    IF self.cache # None /\ ~force THEN {EPageA} ELSE EpisodePages

ImageAnswers(name) ==
    IF name \in {"picture", "poster"} THEN ImageBytes ELSE {<<1>>}

LinkAnswers(name, page) ==
    IF name = "episodes" THEN PopSets(page.objects) ELSE {{}}

\* bookkeeping common to every call: the call record gets the page the
\* fetcher handed out (None if it was not asked)
Observe(call, page) ==
    /\ last' = [call EXCEPT !.served =
                    IF call.fetchedAnime + call.fetchedEpisode > 0
                    THEN Some(page) ELSE None]
    /\ nfetch' = [anime |-> nfetch.anime + call.fetchedAnime,
                  episode |-> nfetch.episode + call.fetchedEpisode]
    /\ clean' = (clean /\ call.op \in {"read", "get"} /\ call.cache /\ ~call.force)
    /\ seen' = IF call.op = "read" /\ call.res.raised = "" /\ call.res.val # None
                  /\ seen[<<call.ent, call.name>>] = None
               THEN [seen EXCEPT ![<<call.ent, call.name>>] = call.res.val]
               ELSE seen
    /\ made' = IF call.op \in {"get_episode", "episode_item"}
                  /\ call.res.raised = "" /\ made[call.index] = None
               THEN [made EXCEPT ![call.index] = Some(call.res.val[1].url)]
               ELSE made
    /\ steps' = steps + 1
    /\ UNCHANGED <<dlvars, batchvars>>

\* the record of a call on `anime`
AnimeCall(op, name, cache, force, r) ==
    [ent |-> "anime", op |-> op, name |-> name, cache |-> cache, force |-> force,
     res |-> r.res, ran |-> r.ran, fetchedAnime |-> r.fetched, fetchedEpisode |-> 0,
     io |-> r.io,
     had |-> IF name = "" THEN FALSE ELSE anime[name] # None,
     was |-> IF name = "" THEN FALSE ELSE seen[<<"anime", name>>] # None,
     precache |-> anime.cache, served |-> None]

\* the record of a call on `episode`; the thumbnail is read off the show's page
EpisodeCall(op, name, cache, force, r) ==
    [ent |-> "episode", op |-> op, name |-> name, cache |-> cache, force |-> force,
     res |-> r.res, ran |-> r.ran, fetchedAnime |-> r.fetchedAnime,
     fetchedEpisode |-> r.fetched, io |-> r.io,
     had |-> IF name = "" THEN FALSE ELSE episode[name] # None,
     was |-> IF name = "" THEN FALSE ELSE seen[<<"episode", name>>] # None,
     precache |-> IF name = "picture" THEN anime.cache ELSE episode.cache,
     served |-> None]

\* ---------------------------------------------------------------- actions
\* anime.<name>, for a name of `names`: Anime.__getattribute__
AnimeReadIn(names) ==
    /\ steps < MaxSteps
    /\ \E name \in names, img \in ImageBytes :
       \E served \in ShowAnswers(anime, FALSE) :
       \E links \in LinkAnswers(name, Anime_get_page(anime, TRUE, FALSE, served).page) :
       \E r \in {Anime_getattribute(anime, name, served, img, links)} :
            /\ name \in {"picture", "poster"} \/ img = <<1>>
            /\ anime' = r.self
            /\ UNCHANGED episode
            /\ Observe(AnimeCall("read", name, TRUE, FALSE, r), served)

\* anime.<name>
AnimeRead == AnimeReadIn(AnimeAuto)

\* anime.get_<name>(cache, force)
AnimeGet ==
    /\ steps < MaxSteps
    /\ \E name \in AnimeAuto \ {"episodes"}, cache \in BOOLEAN, force \in BOOLEAN :
       \E served \in ShowAnswers(anime, force), img \in ImageAnswers(name) :
       \E r \in {[ran |-> TRUE]
                 @@ Anime_resolve(anime, name, cache, force, served, img, {})} :
            /\ anime' = r.self
            /\ UNCHANGED episode
            /\ Observe(AnimeCall("get", name, cache, force, r), served)

\* anime.get_episodes(filter, cache, force)
AnimeGetEpisodes ==
    /\ steps < MaxSteps
    /\ \E filter \in Filters, cache \in BOOLEAN, force \in BOOLEAN :
       \E served \in ShowAnswers(anime, force) :
       \E links \in PopSets(Anime_get_page(anime, cache, force, served).page.objects) :
       \E r \in {[ran |-> TRUE]
                 @@ Anime_get_episodes(anime, filter, cache, force, served, links)} :
            /\ anime' = r.self
            /\ UNCHANGED episode
            /\ Observe(AnimeCall(IF filter.given THEN "get_filtered" ELSE "get",
                                 "episodes", cache, force, r), served)

\* anime.get_page(cache, force)
AnimeGetPage ==
    /\ steps < MaxSteps
    /\ \E cache \in BOOLEAN, force \in BOOLEAN :
       \E served \in ShowAnswers(anime, force) :
       \E g \in {Anime_get_page(anime, cache, force, served)} :
            /\ anime' = [anime EXCEPT !.cache = g.cache]
            /\ UNCHANGED episode
            /\ Observe(AnimeCall("get_page", "", cache, force,
                                 [res |-> Ret(Some(g.page)), ran |-> FALSE,
                                  fetched |-> g.fetched, io |-> 0]), served)

\* episode.<name>: Episode.__getattribute__
EpisodeRead ==
    /\ steps < MaxSteps
    /\ \E name \in EpisodeAuto :
       \E servedA \in IF name = "picture" THEN ShowAnswers(anime, FALSE) ELSE {PageA},
          servedE \in IF name = "provider" THEN EpisodeAnswers(episode, FALSE)
                      ELSE {EPageA},
          img \in IF name = "picture" THEN ImageBytes ELSE {<<1>>} :
       \E r \in {Episode_getattribute(episode, anime, name, servedA, servedE, img)} :
            /\ episode' = r.self
            /\ anime' = r.anime
            /\ Observe(EpisodeCall("read", name, TRUE, FALSE, r),
                       IF name = "picture" THEN servedA ELSE servedE)

\* episode.get_picture(cache, force), episode.get_provider(cache, force)
EpisodeGet ==
    /\ steps < MaxSteps
    /\ \E name \in EpisodeResolvers, cache \in BOOLEAN, force \in BOOLEAN :
       \E servedA \in IF name = "picture" THEN ShowAnswers(anime, force) ELSE {PageA},
          servedE \in IF name = "provider" THEN EpisodeAnswers(episode, force)
                      ELSE {EPageA},
          img \in IF name = "picture" THEN ImageBytes ELSE {<<1>>} :
       \E r \in {[ran |-> TRUE]
                 @@ Episode_resolve(episode, anime, name, cache, force,
                                    servedA, servedE, img)} :
            /\ episode' = r.self
            /\ anime' = r.anime
            /\ Observe(EpisodeCall("get", name, cache, force, r),
                       IF name = "picture" THEN servedA ELSE servedE)

\* episode.get_page(cache, force)
EpisodeGetPage ==
    /\ steps < MaxSteps
    /\ \E cache \in BOOLEAN, force \in BOOLEAN :
       \E served \in EpisodeAnswers(episode, force) :
       \E g \in {Episode_get_page(episode, cache, force, served)} :
            /\ episode' = [episode EXCEPT !.cache = g.cache]
            /\ UNCHANGED anime
            /\ Observe(EpisodeCall("get_page", "", cache, force,
                                   [res |-> Ret(Some(g.page)), ran |-> FALSE,
                                    fetched |-> g.fetched, fetchedAnime |-> 0,
                                    io |-> 0]), served)

Next ==
    \/ AnimeRead
    \/ AnimeGet
    \/ AnimeGetEpisodes
    \/ AnimeGetPage
    \/ EpisodeRead
    \/ EpisodeGet
    \/ EpisodeGetPage

Spec == Init /\ [][Next]_vars

\* the record of a call that builds the Episode of an index; no resolver is
\* run and no request is made
IndexCall(op, index, ep) ==
    [index |-> index, preeps |-> anime.episodes]
    @@ AnimeCall(op, "", TRUE, FALSE,
                 [res |-> Ret(Some(ep)), ran |-> FALSE, fetched |-> 0, io |-> 0])

\* anime.get_episode(index)
AnimeGetEpisodeAt ==
    /\ steps < MaxSteps
    /\ \E index \in Indices :
            /\ UNCHANGED <<anime, episode>>
            /\ Observe(IndexCall("get_episode", index, Anime_get_episode(anime, index)),
                       PageA)

\* the item is taken from the list of the `episodes` attribute
Mutant_episode_item_enumerates ==
    /\ steps < MaxSteps
    /\ \E index \in Indices :
       \E served \in ShowAnswers(anime, FALSE) :
       \E links \in PopSets(Anime_get_page(anime, TRUE, FALSE, served).page.objects) :
       \E a \in {Anime_getattribute(anime, "episodes", served, <<1>>, links)} :
       \E r \in {[a EXCEPT !.res = IF (index + 1) \in DOMAIN a.res.val[1]
                                    THEN Ret(Some(a.res.val[1][index + 1]))
                                    ELSE Raise("IndexError")]} :
            /\ anime' = r.self
            /\ UNCHANGED episode
            /\ Observe([index |-> index, preeps |-> anime.episodes]
                       @@ AnimeCall("episode_item", "", TRUE, FALSE, r), served)

\* anime.episode[index]: EpisodeIterable.__getitem__
AnimeEpisodeItem ==
    /\ steps < MaxSteps
    /\ \E index \in Indices :
            /\ UNCHANGED <<anime, episode>>
            /\ Observe(IndexCall("episode_item", index,
                                 EpisodeIterable_getitem(anime, index)), PageA)

\* a show built with any of the addresses
InitIndex ==
    /\ anime \in {Anime(u) : u \in ShowUrls}
    /\ episode = Episode(Ep2)
    /\ last = NoCall
    /\ seen = [k \in Keys |-> None]
    /\ nfetch = [anime |-> 0, episode |-> 0]
    /\ clean = TRUE
    /\ steps = 0
    /\ dl = Idle
    /\ fs = {}
    /\ log = <<>>
    /\ got = <<>>
    /\ made = [i \in Indices |-> None]
    /\ batch = BatchIdle
    /\ blog = <<>>

NextIndex ==
    \/ AnimeGetEpisodeAt
    \/ AnimeEpisodeItem
    \/ AnimeGetEpisodes
    \/ AnimeGetPage

SpecIndex == InitIndex /\ [][NextIndex]_vars

\* The playlists a download is answered with: every text of up to MaxLines
\* lines when the quality is the default one, a text of one line otherwise
PlaylistAnswers(quality, manifest) ==
    IF quality = Quality_BEST /\ manifest \in BatchManifests
    THEN PlaylistResponses(PlaylistTexts(MaxLines))
    ELSE PlaylistResponses(PlaylistTexts(1))

\* episode.download(path, quality, ext, looping_callback) is called
DownloadCall ==
    /\ dl.pc = "idle" /\ batch.pc = "idle"
    /\ \E ext \in BOOLEAN, cb \in BOOLEAN, quality \in Qualities,
          served \in EpisodeAnswers(episode, FALSE), manifest \in Manifests :
       \E playlist \in PlaylistAnswers(quality, manifest) :
       \E b \in {Episode_download_begin(episode, anime, <<"out">>, quality, ext, cb,
                                        served, manifest, playlist)} :
            /\ episode' = b.self
            /\ dl' = b.frame
            /\ log' = b.events
            /\ nfetch' = [nfetch EXCEPT !.episode = @ + b.fetched]
            /\ UNCHANGED <<anime, fs, got, lazyvars, batchvars>>

\* the request of the segment the loop is at is answered
DownloadFetch ==
    /\ dl.pc = "fetch"
    /\ \E r \in SegResponses :
            /\ dl' = Episode_download_fetch(dl, r)
            /\ log' = Append(log, [e |-> "fetch", i |-> dl.items[dl.k][1], n |-> 0])
            /\ got' = Append(got, [i |-> dl.items[dl.k][1], link |-> dl.items[dl.k][2],
                                   resp |-> r])
            /\ UNCHANGED <<anime, episode, fs, nfetch, lazyvars, batchvars>>

\* the callback is handed the number of the segment counted from 1
Mutant_callback_counts_from_one ==
    /\ dl.pc = "callback"
    /\ dl' = [dl EXCEPT !.pc = "append"]
    /\ log' = Append(log, [e |-> "callback", i |-> dl.items[dl.k][1] + 1, n |-> dl.lenght])
    /\ UNCHANGED <<anime, episode, fs, got, nfetch, lazyvars, batchvars>>

\* looping_callback(i, lenght)
DownloadCallback ==
    /\ dl.pc = "callback"
    /\ dl' = [dl EXCEPT !.pc = "append"]
    /\ log' = Append(log, [e |-> "callback", i |-> dl.items[dl.k][1], n |-> dl.lenght])
    /\ UNCHANGED <<anime, episode, fs, got, nfetch, lazyvars, batchvars>>

DownloadAppend ==
    /\ dl.pc = "append"
    /\ dl' = Episode_download_append(dl)
    /\ UNCHANGED <<anime, episode, fs, log, got, nfetch, lazyvars, batchvars>>

\* the file is written and its path returned
DownloadWrite ==
    /\ dl.pc = "write"
    /\ fs' = WriteFile(fs, Episode_download_path(dl), dl.content)
    /\ dl' = [dl EXCEPT !.pc = "returned", !.res = DlRet(Episode_download_path(dl))]
    /\ log' = Append(log, [e |-> "write", i |-> 0, n |-> 0])
    /\ UNCHANGED <<anime, episode, got, nfetch, lazyvars, batchvars>>

NextDownload ==
    \/ DownloadCall
    \/ DownloadFetch
    \/ DownloadCallback
    \/ DownloadAppend
    \/ DownloadWrite

SpecDownload == Init /\ [][NextDownload]_vars

\* the Episode objects Anime.download iterates over
BatchEpisodes == IF anime.episodes = None THEN <<>> ELSE anime.episodes[1]

\* anime.download(path, pause, quality) is called: the path gets its
\* separator and get_episodes() lists the episodes (lines 605-609)
BatchCall ==
    /\ batch.pc = "idle" /\ dl.pc = "idle"
    /\ \E path \in Directories, quality \in BatchQualities :
       \E served \in ShowAnswers(anime, FALSE) :
       \E links \in PopSets(Anime_get_page(anime, TRUE, FALSE, served).page.objects) :
       \E r \in {Anime_get_episodes(anime, NoFilter, TRUE, FALSE, served, links)} :
            /\ anime' = r.self
            /\ batch' = [BatchIdle EXCEPT
                            !.pc = IF r.res.val[1] = <<>> THEN "return" ELSE "episode",
                            !.arg = path, !.path = with_separator(path),
                            !.quality = quality]
            /\ nfetch' = [nfetch EXCEPT !.anime = @ + r.fetched]
            /\ UNCHANGED <<episode, blog, dlvars, lazyvars>>

\* episode.download(ep_path, quality, False) is called for the episode the
\* loop is at (lines 612-616); pages, manifests, texts: what the episode's
\* page, the provider and the playlist can be answered with
BatchEpisodeWith(pages, manifests, texts) ==
    /\ batch.pc = "episode" /\ dl.pc = "idle"
    /\ \E served \in EpisodeAnswers(BatchEpisodes[batch.k], FALSE) \cap pages,
          manifest \in manifests, text \in texts :
       \E b \in {Episode_download_begin(BatchEpisodes[batch.k], anime,
                                        episode_path(batch.path, BatchEpisodes[batch.k]),
                                        batch.quality, FALSE, FALSE,
                                        served, manifest, PlaylistOk(text))} :
            /\ anime' = [anime EXCEPT !.episodes[1][batch.k] = b.self]
            /\ dl' = b.frame
            /\ log' = b.events
            /\ got' = <<>>
            /\ blog' = Append(blog, [e |-> "download", url |-> b.self.url, n |-> 0])
            /\ batch' = [batch EXCEPT !.pc = "downloading"]
            /\ nfetch' = [nfetch EXCEPT !.episode = @ + b.fetched]
            /\ UNCHANGED <<episode, fs, lazyvars>>

BatchEpisode ==
    BatchEpisodeWith(EpisodePages, BatchManifests, PlaylistTexts(MaxBatchLines))

\* the download returned: pathes += [ep_path] (line 617)
BatchEpisodeDone ==
    /\ batch.pc = "downloading" /\ dl.pc = "returned"
    /\ batch' = [batch EXCEPT !.pc = "sleep",
                              !.pathes = Append(@, dl.path),
                              !.written = Append(@, [path |-> dl.res.val[1],
                                                     content |-> dl.content])]
    /\ blog' = Append(blog, [e |-> "downloaded", url |-> BatchEpisodes[batch.k].url,
                             n |-> 0])
    /\ dl' = Idle
    /\ log' = <<>>
    /\ got' = <<>>
    /\ UNCHANGED <<anime, episode, fs, nfetch, lazyvars>>

\* the pause is left out after the last episode
Mutant_sleep_between_only ==
    /\ batch.pc = "sleep"
    /\ blog' = IF batch.k < Len(BatchEpisodes)
               THEN Append(blog, [e |-> "sleep", url |-> <<>>, n |-> batch.pause])
               ELSE blog
    /\ batch' = [batch EXCEPT !.k = @ + 1,
                              !.pc = IF batch.k < Len(BatchEpisodes) THEN "episode"
                                     ELSE "return"]
    /\ UNCHANGED <<anime, episode, nfetch, dlvars, lazyvars>>

\* sleep(pause), and the loop goes on or ends (lines 620, 609)
BatchSleep ==
    /\ batch.pc = "sleep"
    /\ blog' = Append(blog, [e |-> "sleep", url |-> <<>>, n |-> batch.pause])
    /\ batch' = [batch EXCEPT !.k = @ + 1,
                              !.pc = IF batch.k < Len(BatchEpisodes) THEN "episode"
                                     ELSE "return"]
    /\ UNCHANGED <<anime, episode, nfetch, dlvars, lazyvars>>

\* return pathes (line 622)
BatchReturn ==
    /\ batch.pc = "return"
    /\ batch' = [batch EXCEPT !.pc = "returned", !.res = DlRet(batch.pathes)]
    /\ UNCHANGED <<anime, episode, blog, nfetch, dlvars, lazyvars>>

\* the files of the episodes before the failing one are removed
Mutant_raise_rolls_back ==
    /\ batch.pc = "downloading" /\ dl.pc = "raised"
    /\ batch' = [batch EXCEPT !.pc = "raised", !.res = dl.res]
    /\ fs' = {}
    /\ UNCHANGED <<anime, episode, blog, nfetch, dl, log, got, lazyvars>>

\* the download raised: nothing in Anime.download catches it
BatchRaise ==
    /\ batch.pc = "downloading" /\ dl.pc = "raised"
    /\ batch' = [batch EXCEPT !.pc = "raised", !.res = dl.res]
    /\ UNCHANGED <<anime, episode, blog, nfetch, dlvars, lazyvars>>

NextBatch ==
    \/ BatchCall
    \/ BatchEpisode
    \/ DownloadFetch
    \/ DownloadAppend
    \/ DownloadWrite
    \/ BatchEpisodeDone
    \/ BatchSleep
    \/ BatchReturn
    \/ BatchRaise

SpecBatch == Init /\ [][NextBatch]_vars

\* a download of one episode, or a batch
NextFiles ==
    \/ NextDownload
    \/ NextBatch

SpecFiles == Init /\ [][NextFiles]_vars

\* ------------------------------------------------------- the episode list
\* One thread: between the call of Anime.download and its end nothing else
\* is called on the Anime.
Outside == batch.pc \in {"idle", "returned", "raised"}

\* anime.get_episodes(filter, cache, force), outside a batch
ListGetEpisodes == Outside /\ AnimeGetEpisodes

\* anime.episodes, outside a batch
ListRead == Outside /\ AnimeReadIn({"episodes"})

\* the downloads of a batch, with a provider that lists no quality or an
\* episode page without player: the first download raises after
\* get_provider has filled the Episode of the list
ListBatchEpisode == BatchEpisodeWith({EPageA, EPageBad}, {<<>>}, {<<>>})

\* Anime.download is over (returned or raised): the caller goes on, and can
\* call it again
BatchLeave ==
    /\ steps < MaxSteps
    /\ batch.pc \in {"returned", "raised"}
    /\ batch' = BatchIdle
    /\ blog' = <<>>
    /\ dl' = Idle
    /\ log' = <<>>
    /\ got' = <<>>
    /\ steps' = steps + 1
    /\ UNCHANGED <<anime, episode, fs, nfetch, last, seen, clean, made>>

NextList ==
    \/ ListGetEpisodes
    \/ ListRead
    \/ BatchCall
    \/ ListBatchEpisode
    \/ BatchRaise
    \/ BatchReturn
    \/ BatchLeave

SpecList == Init /\ [][NextList]_vars

\* value stored in the attribute <name> of the entity
Stored(ent, name) == IF ent = "anime" THEN anime[name] ELSE episode[name]

\* ----------------------------------------------------------------- claims
\* C1: once an attribute read of a derived field has returned a value, a
\* later attribute read of that field returns the stored value, runs no
\* resolver and does no I/O.
C1_ResolvedFieldIsNotRecomputed ==
    (last.op = "read" /\ last.was) =>
        /\ ~last.ran
        /\ last.fetchedAnime = 0 /\ last.fetchedEpisode = 0 /\ last.io = 0
        /\ last.res = Ret(Stored(last.ent, last.name))

\* C2: a read of a page-derived field whose resolver ran never ends by
\* raising: a failed extraction is logged and an absent value is returned.
C2_ResolversNeverRaise ==
    (last.op \in {"read", "get", "get_filtered"} /\ last.ran) =>
        last.res.raised = ""

\* C6: while every call so far was a read with the default flags, each
\* entity's page has been fetched at most once and a field read again gives
\* the value its first read gave.
C6_ReadsAreIdempotent ==
    clean =>
        /\ nfetch.anime <= 1
        /\ nfetch.episode <= 1
        /\ (last.op \in {"read", "get"} /\ last.was) =>
                last.res = Ret(seen[<<last.ent, last.name>>])

\* the part of C6 the code does keep: at most one fetch per entity
C6_AtMostOneFetch == clean => (nfetch.anime <= 1 /\ nfetch.episode <= 1)

\* C7: get_page(cache, force) returns the cached page without a fetch exactly
\* when a page is cached and force is unset; otherwise it fetches once and
\* the fetched page replaces the cached one iff cache is set.  A resolver
\* called with force set fetches even when a page is cached.
C7_GetPageDiscipline ==
    LET hit == last.precache # None /\ ~last.force
        fetched == last.fetchedAnime + last.fetchedEpisode
        own == IF last.ent = "anime" THEN last.fetchedAnime ELSE last.fetchedEpisode
        slot == IF last.ent = "anime" THEN anime.cache ELSE episode.cache
    IN /\ last.op = "get_page" =>
            /\ fetched = own
            /\ own = (IF hit THEN 0 ELSE 1)
            /\ hit => (last.res = Ret(last.precache) /\ slot = last.precache)
            /\ ~hit => /\ last.served # None
                       /\ last.res = Ret(last.served)
                       /\ slot = (IF last.cache THEN last.served ELSE last.precache)
       /\ (last.op \in {"get", "get_filtered"} /\ last.force) =>
            (fetched = 1 /\ last.served # None)

\* C7's case: a forced get_page on a cached page, not stored, that fetched
\* a page other than the cached one
C7_Witness ==
    /\ last.op = "get_page" /\ last.force /\ ~last.cache
    /\ last.precache # None
    /\ last.served # None /\ last.served # last.precache
    /\ last.fetchedAnime + last.fetchedEpisode = 1

\* C8: reading an unset derived field runs that field's resolver and never
\* ends with a missing-resolver error.
C8_EveryDerivedFieldHasResolver ==
    (last.op = "read" /\ ~last.had) =>
        (last.ran /\ last.res.raised # "AttributeError")

\* the payloads of the answers, one after another
RECURSIVE Payloads(_)
Payloads(answers) ==
    IF answers = <<>> THEN <<>>
    ELSE answers[1].resp.content \o Payloads(Tail(answers))

\* the segment references of the playlist the running download uses
Segments == [k \in DOMAIN dl.items |-> dl.items[k][2]]

\* C3: when Episode.download returns, the file at the returned path holds
\* the payloads of the n segments, each once, in playlist order.
C3_FileIsConcatenation ==
    dl.pc = "returned" =>
        /\ Len(got) = dl.lenght
        /\ dl.lenght = Len(Segments)
        /\ \A k \in DOMAIN got : got[k].i = k - 1 /\ got[k].link = Segments[k]
        /\ \E f \in fs : f.path = dl.res.val[1] /\ f.content = Payloads(got)
        /\ Cardinality({f \in fs : f.path = dl.res.val[1]}) = 1

\* C3's case: a download of three segments with different payloads returned
C3_Witness ==
    /\ dl.pc = "returned" /\ dl.lenght = 3
    /\ got[1].resp = SegOk2 /\ got[2].resp = SegOk1 /\ got[3].resp = SegOk2
    /\ got[1].link # got[2].link

\* C4: a segment answer with a failure status is the last request of the
\* download: the call raises the typed error with that answer's body and
\* status, no file exists, and nothing is returned.
C4_AbortOnFailedSegment ==
    /\ \A k \in DOMAIN got :
          ~got[k].resp.ok =>
             /\ k = Len(got)
             /\ dl.pc = "raised"
             /\ dl.res = DlRaise("FetchingErorr",
                                 <<got[k].resp.text, got[k].resp.status_code>>)
             /\ log[Len(log)] = [e |-> "fetch", i |-> k - 1, n |-> 0]
             /\ fs = {}
    /\ \A k \in DOMAIN got : got[k].i = k - 1
    /\ dl.res.raised = "FetchingErorr" => (got # <<>> /\ ~got[Len(got)].resp.ok)

\* C4's case: the third of three segments failed after two were fetched
C4_Witness ==
    /\ dl.pc = "raised" /\ dl.lenght = 3 /\ Len(got) = 3
    /\ got[3].resp = Seg404
    /\ dl.content # <<>>
    /\ fs = {}

\* the fetches and callbacks of the log, in order
Trace == SelectSeq(log, LAMBDA ev : ev.e \in {"fetch", "callback"})

\* fetch 0, callback (0, n), fetch 1, callback (1, n), ...
Alternating(n) ==
    [j \in 1..(2 * n) |->
        IF j % 2 = 1 THEN [e |-> "fetch", i |-> (j - 1) \div 2, n |-> 0]
        ELSE [e |-> "callback", i |-> (j - 2) \div 2, n |-> n]]

\* C5: with a progress callback, the callback for segment i is called with
\* (i, n) after the fetch of segment i and before the fetch of segment i+1;
\* a download that returns has made exactly the calls (0,n) ... (n-1,n).
C5_CallbackAfterEachFetch ==
    dl.cb =>
        /\ Len(Trace) <= 2 * dl.lenght
        /\ Trace = SubSeq(Alternating(dl.lenght), 1, Len(Trace))
        /\ dl.pc = "returned" => Len(Trace) = 2 * dl.lenght
        /\ dl.pc = "fetch" => Len(Trace) % 2 = 0

\* C5's case: a download of three segments with a callback returned
C5_Witness ==
    /\ dl.cb /\ dl.pc = "returned" /\ dl.lenght = 3
    /\ Len(Trace) = 6

\* the episode addresses of the listing of the page Anime.download read
Listing ==
    IF anime.cache = None THEN {}
    ELSE UNION {anime.cache[1].objects[i] : i \in DOMAIN anime.cache[1].objects}

Started == SelectSeq(blog, LAMBDA ev : ev.e = "download")

StartsAndEnds == SelectSeq(blog, LAMBDA ev : ev.e \in {"download", "downloaded"})

StartsAndPauses == SelectSeq(blog, LAMBDA ev : ev.e \in {"download", "sleep"})

\* C9: Anime.download downloads the distinct addresses of the listing one
\* after another in ascending order, each once, and returns one path per
\* episode in that order.
C9_BatchInAscendingOrder ==
    /\ \A i, j \in DOMAIN Started :
          i < j => LexLess(Started[i].url, Started[j].url)
    /\ \A i \in DOMAIN Started : Started[i].url \in Listing
    /\ \A j \in DOMAIN StartsAndEnds :
          /\ StartsAndEnds[j].e = (IF j % 2 = 1 THEN "download" ELSE "downloaded")
          /\ j % 2 = 0 => StartsAndEnds[j].url = StartsAndEnds[j - 1].url
    /\ batch.pc = "returned" =>
          /\ {Started[i].url : i \in DOMAIN Started} = Listing
          /\ Len(StartsAndEnds) = 2 * Cardinality(Listing)
          /\ Len(batch.res.val[1]) = Len(Started)
          /\ \A i \in DOMAIN Started :
                batch.res.val[1][i]
                    = episode_path(batch.path, Episode(Started[i].url))

\* C9's case: a batch over the three episodes 1, 10 and 2 returned
C9_Witness ==
    /\ batch.pc = "returned"
    /\ Len(Started) = 3
    /\ Started[1].url = Ep1 /\ Started[2].url = Ep10 /\ Started[3].url = Ep2

C11_FailedEpisodeFailsBatch ==
    /\ (batch.pc # "idle" /\ dl.pc = "raised") => batch.pc \in {"downloading", "raised"}
    /\ batch.pc = "raised" =>
          /\ dl.pc = "raised"
          /\ batch.res = dl.res /\ batch.res.raised # "" /\ batch.res.val = None
          /\ Len(Started) = batch.k
          /\ blog[Len(blog)] = [e |-> "download", url |-> BatchEpisodes[batch.k].url,
                                n |-> 0]
          /\ Len(batch.written) = batch.k - 1
          /\ \A i \in DOMAIN batch.written :
                /\ batch.written[i].path = episode_path(batch.path, BatchEpisodes[i])
                /\ batch.written[i] \in fs
          /\ Cardinality(fs) = batch.k - 1

\* C11's case: the third of three episodes failed on a segment after two
\* episodes were written
C11_Witness ==
    /\ batch.pc = "raised" /\ batch.k = 3
    /\ batch.res.raised = "FetchingErorr"
    /\ batch.written[1].content # <<>>
    /\ Cardinality(fs) = 2

\* the address the last call built
Built == last.res.val[1].url

\* the show's address with '/episode/' for every '/info/'
EpisodeBase ==
    [k \in DOMAIN anime.url |->
        IF anime.url[k] = Slash_info THEN Slash_episode ELSE anime.url[k]]

\* the places of '_' in the show's address
Underscores == {k \in DOMAIN anime.url : anime.url[k] = Underscore}

LastUnderscore == CHOOSE k \in Underscores : \A j \in Underscores : j <= k

\* the places of the digits of an address; its first character is the site
NumericPlaces(u) == {k \in DOMAIN u : k > 1 /\ u[k] \in 0..9}

\* the show's address with its last run of digits replaced by the index,
\* padded with zeros to two digits
ReplacedLastNumeric(u, index) ==
    IF NumericPlaces(u) = {} THEN u
    ELSE LET hi == CHOOSE k \in NumericPlaces(u) : \A j \in NumericPlaces(u) : j <= k
             lo == CHOOSE k \in 1..hi :
                      /\ \A j \in k..hi : j \in NumericPlaces(u)
                      /\ (k - 1) \notin NumericPlaces(u)
         IN SubSeq(u, 1, lo - 1) \o zfill(str(index), 2) \o SubSeq(u, hi + 1, Len(u))

\* the number a sequence of decimal digits writes
RECURSIVE DecimalValue(_)
DecimalValue(d) ==
    IF d = <<>> THEN 0 ELSE 10 * DecimalValue(SubSeq(d, 1, Len(d) - 1)) + d[Len(d)]

\* C12 as stated: get_episode(i) builds the same address on every call, the
\* address is the show's address with the zero-padded index in place of its
\* last numeric segment, and the addresses of two indexes differ only in
\* that number.
C12_IndexReplacesLastNumericSegment ==
    last.op \in {"get_episode", "episode_item"} =>
        /\ Built = made[last.index][1]
        /\ Built = ReplacedLastNumeric(anime.url, last.index)
        /\ \A j \in Indices \ {last.index} :
              made[j] # None => made[j][1] = ReplacedLastNumeric(anime.url, j)

\* C12 amended: get_episode(i) builds the same address on every call: the
\* show's address with '/episode/' for every '/info/' and, put in front of
\* its last '_', a '-' and the index padded with zeros to two digits at
\* least; nothing of the show's address is removed, and an address without
\* '_' gets no index.  With a '_', the addresses of two indexes are
\* different and differ only in the digits of the index.
C12_IndexInsertedBeforeLastUnderscore ==
    last.op \in {"get_episode", "episode_item"} =>
        /\ Built = made[last.index][1]
        /\ Underscores = {} => Built = EpisodeBase
        /\ Underscores # {} =>
              LET p == LastUnderscore
                  w == Len(Built) - Len(anime.url) - 1
                  d == SubSeq(Built, p + 1, p + w)
              IN /\ w >= 2
                 /\ SubSeq(Built, 1, p - 1) = SubSeq(EpisodeBase, 1, p - 1)
                 /\ Built[p] = Dash
                 /\ \A k \in DOMAIN d : d[k] \in 0..9
                 /\ DecimalValue(d) = last.index
                 /\ w = 2 \/ d[1] # 0
                 /\ SubSeq(Built, p + w + 1, Len(Built))
                        = SubSeq(EpisodeBase, p, Len(EpisodeBase))
                 /\ \A j \in Indices \ {last.index} :
                       made[j] # None =>
                          LET o == made[j][1]
                              n == Len(EpisodeBase) - p + 1
                          IN /\ o # Built
                             /\ SubSeq(o, 1, p) = SubSeq(Built, 1, p)
                             /\ SubSeq(o, Len(o) - n + 1, Len(o))
                                   = SubSeq(Built, Len(Built) - n + 1, Len(Built))

\* C12's case: on a show whose address has two '_', index 7 is asked for
\* after index 8
C12_Witness ==
    /\ last.op = "get_episode" /\ last.index = 7
    /\ anime.url = <<Root, Slash_info, 5, Underscore, Letter, Underscore, Letter>>
    /\ made[8] = Some(<<Root, Slash_episode, 5, Underscore, Letter, Dash, 0, 8,
                        Underscore, Letter>>)
    /\ Built = <<Root, Slash_episode, 5, Underscore, Letter, Dash, 0, 7,
                 Underscore, Letter>>

\* C13: anime.episode[i] makes no page fetch and no other request, does not
\* run the resolver of the episode list, leaves the show's page cache and
\* episode list as they were, and returns an Episode whose derived fields
\* and page cache are all unset.
C13_PositionalAccessTouchesNothing ==
    last.op = "episode_item" =>
        /\ last.res.raised = ""
        /\ last.fetchedAnime = 0 /\ last.fetchedEpisode = 0 /\ last.io = 0
        /\ last.served = None
        /\ ~last.ran
        /\ anime.cache = last.precache
        /\ anime.episodes = last.preeps
        /\ \A f \in EpisodeAuto \cup {"cache"} : last.res.val[1][f] = None

\* C13's case: an item is asked of a show that never listed its episodes and
\* has no page cached
C13_Witness ==
    /\ last.op = "episode_item" /\ last.index = 7
    /\ last.preeps = None /\ last.precache = None
    /\ nfetch.anime = 0
    /\ Underscores # {}

\* the manifests the provider handed to the running download
Grabbed == SelectSeq(log, LAMBDA ev : ev.e = "grab")

\* the requests of the running download after the manifest request
AfterGrab == SelectSeq(log, LAMBDA ev : ev.e \in {"playlist", "fetch", "write"})

\* C14: a download whose manifest holds no quality entry raises ManifestEmpty
\* at the resolution step: no address is resolved, no playlist and no segment
\* is requested, no file is written; no other download raises that error.
C14_EmptyManifestFailsHard ==
    /\ \A j \in DOMAIN Grabbed :
          Grabbed[j].m = <<>> =>
             /\ dl.pc = "raised"
             /\ dl.res = DlRaise("ManifestEmpty", <<>>)
             /\ dl.url = None
             /\ AfterGrab = <<>>
             /\ got = <<>>
             /\ fs = {}
    /\ dl.res.raised = "ManifestEmpty" => (Grabbed # <<>> /\ Grabbed[1].m = <<>>)

\* C14's case: the provider was resolved and its manifest came back empty
C14_Witness ==
    /\ dl.pc = "raised" /\ dl.res.raised = "ManifestEmpty"
    /\ episode.provider # None
    /\ Len(log) = 2 /\ log[2].e = "grab"

\* |a - b|
Gap(a, b) == IF a < b THEN b - a ELSE a - b

\* C15: for a manifest with entries and a numeric quality q, the address the
\* playlist is requested at is the one of the entry whose level is nearest
\* to q, the lower level if two are equally near; the manifest the download
\* holds stays the one the provider handed out.
C15_NumericPicksNearestLowerOnTie ==
    \A j \in DOMAIN Grabbed :
        (Grabbed[j].m # <<>> /\ dl.quality.sym = "") =>
            LET m == Grabbed[j].m
                q == dl.quality.level
            IN /\ dl.url # None
               /\ dl.res.raised # "ManifestEmpty"
               /\ \E a \in DOMAIN m :
                     /\ m[a].url = dl.url[1]
                     /\ \A b \in DOMAIN m :
                           \/ Gap(m[a].q, q) < Gap(m[b].q, q)
                           \/ Gap(m[a].q, q) = Gap(m[b].q, q) /\ m[a].q <= m[b].q
               /\ AfterGrab # <<>> /\ AfterGrab[1].e = "playlist"
               /\ AfterGrab[1].url = dl.url[1]
               /\ dl.raw = Some(m)

\* C15's case: level 4 is asked of the manifest with levels 3, 1, 5, and the
\* download returned
C15_Witness ==
    /\ dl.pc = "returned"
    /\ dl.quality = Level(4) /\ dl.raw = Some(Manifest3)
    /\ dl.url = Some("u2")

\* the directory a batch was called with, ended by a separator
BatchDirectory ==
    IF batch.arg[Len(batch.arg)] \in {"/", "\\"} THEN batch.arg
    ELSE batch.arg \o <<"/">>

\* C16: Episode.download returns the caller's path, with '.mp4' appended once
\* iff ext is set, and the file it wrote is at that path.  In Anime.download
\* the file of each episode is at directory + separator if missing + raw name
\* + '.mp4', nothing after that one extension, and that path is the one
\* returned for the episode.
C16_FileAtReturnedPath ==
    /\ dl.pc = "returned" =>
          /\ dl.res.val[1] = (IF dl.ext THEN dl.path \o <<".mp4">> ELSE dl.path)
          /\ \E f \in fs : f.path = dl.res.val[1] /\ f.content = dl.content
          /\ batch.pc = "idle" => Cardinality(fs) = 1
    /\ \A i \in DOMAIN batch.written :
          /\ batch.written[i].path
                = BatchDirectory \o BatchEpisodes[i].raw_name \o <<".mp4">>
          /\ Len(batch.written[i].path)
                = Len(BatchDirectory) + Len(BatchEpisodes[i].raw_name) + 1
          /\ batch.written[i].path[Len(batch.written[i].path)] = ".mp4"
          /\ batch.pathes[i] = batch.written[i].path
          /\ \E f \in fs : f.path = batch.pathes[i]
    /\ Len(batch.pathes) = Len(batch.written)
    /\ batch.pc # "idle" => Cardinality(fs) = Len(batch.written)
                               + (IF dl.pc = "returned" THEN 1 ELSE 0)
    /\ batch.pc = "returned" =>
          /\ batch.res.val[1] = batch.pathes
          /\ Len(batch.pathes) = Len(BatchEpisodes)

\* C16's case: a batch called with a directory without separator returned
\* the paths of its three episodes
C16_Witness ==
    /\ batch.pc = "returned" /\ batch.arg = <<"dir">>
    /\ batch.res.val[1] = << <<"dir", "/", 1, ".mp4">>, <<"dir", "/", 1, 0, ".mp4">>,
                             <<"dir", "/", 2, ".mp4">> >>
    /\ Cardinality(fs) = 3

\* the playlist requests of the running download, with the text answered
Playlists == SelectSeq(log, LAMBDA ev : ev.e = "playlist")

\* the places where a line of the text ends, and the places before its
\* first and after its last character
LineBreaks(text) ==
    {0, Len(text) + 1} \cup {i \in DOMAIN text : text[i] = "\n"}

\* the k-th break of the text, counted from 1
Break(text, k) ==
    CHOOSE b \in LineBreaks(text) :
        Cardinality({c \in LineBreaks(text) : c < b}) = k - 1

\* the lines of the text: what stands between two consecutive breaks
LinesOf(text) ==
    [k \in 1..(Cardinality(LineBreaks(text)) - 1) |->
        SubSeq(text, Break(text, k) + 1, Break(text, k + 1) - 1)]

\* a line that is an absolute HTTPS reference
IsHttpsReference(line) == line # <<>> /\ line[1] = "https://"

\* C17: the segments of a download are the lines of the playlist text that
\* are HTTPS references, in the order of the text, duplicates kept; the
\* requests made are for these segments in that order, so no other line is
\* ever requested.
C17_SegmentsAreHttpsLines ==
    /\ Len(Playlists) <= 1
    /\ Playlists = <<>> => (Segments = <<>> /\ got = <<>>)
    /\ \A j \in DOMAIN Playlists :
          /\ Segments = SelectSeq(LinesOf(Playlists[j].text), IsHttpsReference)
          /\ dl.lenght = Len(Segments)
    /\ Len(got) <= Len(Segments)
    /\ \A k \in DOMAIN got :
          got[k].link = Segments[k] /\ IsHttpsReference(got[k].link)

\* C17's case: a playlist with the same reference twice and a line that is
\* not HTTPS between the two; the download returned after two requests
C17_Witness ==
    /\ dl.pc = "returned"
    /\ Playlists # <<>>
    /\ Playlists[1].text = SegB \o <<"\n", "http://", "x", "\n">> \o SegB
    /\ Segments = <<SegB, SegB>>
    /\ Len(got) = 2

\* the calls of the progress callback made by the running download
Callbacks == SelectSeq(log, LAMBDA ev : ev.e = "callback")

\* C18: when the request of segment k is answered with a failure, the
\* callback has been called for the segments 0 .. k-1, once each and in that
\* order, and is not called for segment k or a later one.
C18_NoCallbackFromFailedSegment ==
    \A j \in DOMAIN got :
        ~got[j].resp.ok =>
            LET k == got[j].i
            IN /\ \A c \in DOMAIN Callbacks : Callbacks[c].i < k
               /\ Len(Callbacks) = (IF dl.cb THEN k ELSE 0)
               /\ \A c \in DOMAIN Callbacks :
                     Callbacks[c] = [e |-> "callback", i |-> c - 1, n |-> dl.lenght]
               /\ log[Len(log)].e = "fetch" /\ log[Len(log)].i = k

\* C18's case: with a callback, the third of three segments failed
C18_Witness ==
    /\ dl.cb /\ dl.pc = "raised" /\ dl.lenght = 3
    /\ Len(got) = 3 /\ got[3].resp = Seg500
    /\ Len(Callbacks) = 2

\* C19: the status of the playlist answer is not looked at: answered with a
\* failure, the download goes on with the HTTPS lines of the text as with a
\* success, and only a failed segment ends it with an error after that.
\* When the text has no HTTPS line, no segment is requested, the callback is
\* never called, the file is written empty and the path is returned.
C19_PlaylistStatusIgnored ==
    \A j \in DOMAIN Playlists :
        /\ Segments = SelectSeq(LinesOf(Playlists[j].text), IsHttpsReference)
        /\ dl.pc # "idle"
        /\ dl.pc = "raised" =>
              /\ dl.res.raised = "FetchingErorr"
              /\ got # <<>> /\ ~got[Len(got)].resp.ok
        /\ Segments = <<>> =>
              /\ got = <<>> /\ Callbacks = <<>>
              /\ dl.pc \in {"write", "returned"}
              /\ dl.content = <<>>
              /\ dl.pc = "returned" =>
                    /\ dl.res.raised = ""
                    /\ dl.res.val[1]
                          = (IF dl.ext THEN dl.path \o <<".mp4">> ELSE dl.path)
                    /\ \E f \in fs : f.path = dl.res.val[1] /\ f.content = <<>>

\* C19's case: the playlist was answered with a failure and a text without
\* HTTPS line, a callback was given, and the download returned
C19_Witness ==
    /\ dl.pc = "returned" /\ dl.cb
    /\ Playlists # <<>> /\ ~Playlists[1].ok
    /\ Playlists[1].text # <<>> /\ Segments = <<>>
    /\ \E f \in fs : f.path = dl.res.val[1] /\ f.content = <<>>

\* the step is a call that ran the resolver `name` of the Episode
EpisodeResolved(name) ==
    last'.ent = "episode" /\ last'.name = name /\ last'.ran

\* the page a resolver step worked on: the one the cache held before the
\* step, or the one fetched during it
PageUsed(held) == IF last'.served = None THEN held[1] ELSE last'.served[1]

\* C20: resolving the picture of an Episode works on the page of its Anime:
\* it fetches one exactly if the Anime holds none or force is set, reads the
\* thumbnail off that page, stores it in the Anime exactly if cache is set,
\* and neither fetches the Episode's page nor touches the Episode's cache.
\* Resolving the provider works in the same way on the Episode's own page
\* and cache, and leaves the Anime as it is.
C20_PictureOnShowPageProviderOnOwn ==
    [][ /\ EpisodeResolved("picture") =>
             /\ episode'.cache = episode.cache
             /\ last'.fetchedEpisode = 0
             /\ last'.fetchedAnime
                   = (IF anime.cache # None /\ ~last'.force THEN 0 ELSE 1)
             /\ (last'.served # None) = (last'.fetchedAnime = 1)
             /\ anime'.cache = (IF last'.cache THEN Some(PageUsed(anime.cache))
                                ELSE anime.cache)
             /\ \E img \in ImageBytes :
                   last'.res = Ret(PictureLoop(PageUsed(anime.cache).holders,
                                               episode.url, img).val)
        /\ EpisodeResolved("provider") =>
             /\ anime' = anime
             /\ last'.fetchedAnime = 0
             /\ last'.fetchedEpisode
                   = (IF episode.cache # None /\ ~last'.force THEN 0 ELSE 1)
             /\ (last'.served # None) = (last'.fetchedEpisode = 1)
             /\ episode'.cache = (IF last'.cache THEN Some(PageUsed(episode.cache))
                                  ELSE episode.cache)
             /\ last'.res.raised = "" =>
                   last'.res.val = PageUsed(episode.cache).iframe
      ]_vars

\* C20's case: the picture was resolved, with a fetch and with cache set,
\* by an Episode that held its own page from resolving the provider; the
\* two caches hold two different pages
C20_Witness ==
    /\ last.ent = "episode" /\ last.name = "picture" /\ last.ran
    /\ last.fetchedAnime = 1 /\ last.cache
    /\ last.precache = None
    /\ anime.cache = last.served
    /\ episode.cache = Some(EPageB) /\ episode.provider # None
    /\ last.res.val # None

\* the cache holds the page of a load that failed
HoldsFailedPage(cache) == cache # None /\ ~cache[1].ok

\* C21: a page whose load failed is stored like any other: exactly if the
\* call has cache set.  While an entity holds such a page, no call without
\* force fetches the page of that entity or changes its cache, and a call
\* that changes the cache is a forced one that fetched and stored the page
\* it was served.
C21_FailedPageIsCachedAndReused ==
    [][ /\ (last'.fetchedAnime = 1 /\ ~last'.served[1].ok) =>
              anime'.cache = (IF last'.cache THEN last'.served ELSE anime.cache)
        /\ (last'.fetchedEpisode = 1 /\ ~last'.served[1].ok) =>
              episode'.cache = (IF last'.cache THEN last'.served ELSE episode.cache)
        /\ HoldsFailedPage(anime.cache) =>
              /\ ~last'.force =>
                    (last'.fetchedAnime = 0 /\ anime'.cache = anime.cache)
              /\ anime'.cache # anime.cache =>
                    /\ last'.force /\ last'.cache /\ last'.fetchedAnime = 1
                    /\ anime'.cache = last'.served
        /\ HoldsFailedPage(episode.cache) =>
              /\ ~last'.force =>
                    (last'.fetchedEpisode = 0 /\ episode'.cache = episode.cache)
              /\ episode'.cache # episode.cache =>
                    /\ last'.force /\ last'.cache /\ last'.fetchedEpisode = 1
                    /\ episode'.cache = last'.served
      ]_vars

\* C21's case: the Anime held the page of a failed load, and a derived field
\* was then read: its resolver ran without a fetch and the page is still held
C21_Witness ==
    /\ last.ent = "anime" /\ last.op = "read" /\ last.ran
    /\ last.precache = Some(PageBad)
    /\ last.fetchedAnime = 0
    /\ anime.cache = Some(PageBad)
    /\ nfetch.anime = 1

\* every Episode of the list is as its constructor leaves it: no derived
\* field set, no page held
FreshEpisodes(list) == \A i \in DOMAIN list : list[i] = Episode(list[i].url)

\* the addresses of the Episodes of the list
ListedLinks(list) == {list[i].url : i \in DOMAIN list}

\* the list holds one Episode for each link of `links` and nothing else
ListsExactly(list, links) ==
    ListedLinks(list) = links /\ Len(list) = Cardinality(links)

\* C22: `episodes` of the Anime is what the last get_episodes call returned.
\* A step that runs get_episodes (called, or through a read of `episodes`
\* not yet set) leaves in `episodes` the list it returns: fresh Episodes of
\* links of the page, each one once, all of them without a filter and only
\* accepted ones with a filter.  A read of `episodes` already set returns the
\* list held.  The call of Anime.download leaves a list of fresh Episodes,
\* one for each link of the page, whatever list was held before.  A download
\* of the batch changes only the Episode it is for, and no other step
\* changes the list.
C22_EpisodesIsLastListing ==
    [][ LET lazy == steps' # steps /\ batch' = batch
            listing == lazy /\ last'.name = "episodes" /\ last'.ran
            called == batch.pc = "idle" /\ batch'.pc # "idle"
            filling == batch.pc = "episode" /\ batch'.pc = "downloading"
        IN /\ listing =>
                /\ last'.res.raised = ""
                /\ anime'.episodes = last'.res.val
                /\ FreshEpisodes(anime'.episodes[1])
                /\ \E links \in PopSets(PageUsed(anime.cache).objects),
                      filter \in Filters :
                      /\ filter.given = (last'.op = "get_filtered")
                      /\ ListsExactly(anime'.episodes[1],
                                      ListedLinks(anime'.episodes[1]) \cap links)
                      /\ filter.given =>
                            \A u \in ListedLinks(anime'.episodes[1]) :
                                get_episode_index(u) \in filter.accept
                      /\ ~filter.given => ListsExactly(anime'.episodes[1], links)
           /\ (lazy /\ last'.name = "episodes" /\ ~last'.ran) =>
                /\ last'.res = Ret(anime.episodes)
                /\ anime'.episodes = anime.episodes
           /\ called =>
                /\ anime'.episodes # None
                /\ FreshEpisodes(anime'.episodes[1])
                /\ \E links \in PopSets(anime'.cache[1].objects) :
                      ListsExactly(anime'.episodes[1], links)
           /\ filling =>
                /\ Len(anime'.episodes[1]) = Len(anime.episodes[1])
                /\ \A i \in DOMAIN anime.episodes[1] :
                      /\ anime'.episodes[1][i].url = anime.episodes[1][i].url
                      /\ i # batch.k =>
                            anime'.episodes[1][i] = anime.episodes[1][i]
           /\ ~(listing \/ called \/ filling) => anime'.episodes = anime.episodes
      ]_vars

\* C22's case: get_episodes was called with a filter, a first batch filled
\* an Episode of its list and ended, and Anime.download was called again: the
\* list holds more Episodes than the filter let through, all of them fresh
C22_Witness ==
    /\ last.op = "get_filtered" /\ last.res.raised = ""
    /\ nfetch.episode = 1
    /\ batch.pc = "episode" /\ batch.k = 1 /\ dl.pc = "idle"
    /\ Len(last.res.val[1]) < Len(anime.episodes[1])
    /\ FreshEpisodes(anime.episodes[1])

====
